---- MODULE Spec2Model ----
(***************************************************************************)
(* WiFi Dead Zone Mapper: the collection loop of wifi_mapper.py and the    *)
(* analysis / gridding / main flow of wifi_visualizer.py.                  *)
(*                                                                         *)
(* Text is a sequence of one-character strings, so that .strip() and       *)
(* .lower() are computed.  An optional Python value (None or a value) is a *)
(* record with a tag.  Coordinates are integers of the user's unit.        *)
(***************************************************************************)
EXTENDS Integers, Sequences, FiniteSets, TLC

(***************************************************************************)
(* Bounds of the model.                                                    *)
(***************************************************************************)
MaxPoints == 2       \* samples a dataset file may hold in the collection runs
MaxSamples == 4      \* samples of a dataset in the analysis runs
MaxRuns == 2         \* analysis runs made over one dataset
MaxGridSamples == 3  \* samples of a dataset in the visualization runs
Resolution2D == 4    \* lattice points per axis of the heat map (the source: 100)
Resolution3D == 3    \* lattice points per axis of the 3D surface (the source: 50)

VARIABLES
    file,         \* the dataset file on disk: exists, valid (complete JSON), text
    pc,           \* collect_data: position in the function
    data_points,  \* collect_data: the in-memory list
    point_num,    \* collect_data: the number shown in the prompt
    signal,       \* collect_data: the last probe result
    retry,        \* collect_data: the last answer to "Try again?"
    pos,          \* collect_data: the (x, y) returned by get_manual_position
    probe_calls,  \* probe calls made for the point being handled
    console,      \* the "Logged" lines printed in this session
    prior,        \* the samples the file held when this session started
    now,          \* the clock read by datetime.now()
    vpc,          \* visualizer main: position in the function
    args,         \* visualizer main: parsed command line
    data,         \* visualizer main: result of load_data
    report,       \* what analyze_dead_zones printed last
    grid_signal,  \* create_heatmap: the interpolated grid
    grid_3d,      \* create_3d_visualization: the interpolated grid
    images,       \* image files written
    executed      \* the functions main has called, in call order

cvars == <<pc, data_points, point_num, signal, retry, pos, probe_calls,
           console, prior, now>>
vvars == <<vpc, args, data, report, grid_signal, grid_3d, images, executed>>
vars == <<file, cvars, vvars>>

(***************************************************************************)
(* Text.                                                                   *)
(***************************************************************************)
\* str.lower() on one character
LowerChar(c) ==
    CASE c = "D" -> "d"
      [] c = "O" -> "o"
      [] c = "N" -> "n"
      [] c = "E" -> "e"
      [] c = "Y" -> "y"
      [] OTHER -> c

\* str.lower()
Lower(s) == [i \in 1..Len(s) |-> LowerChar(s[i])]

RECURSIVE LStrip(_)
LStrip(s) == IF s # <<>> /\ Head(s) = " " THEN LStrip(Tail(s)) ELSE s

RECURSIVE RStrip(_)
RStrip(s) ==
    IF s # <<>> /\ s[Len(s)] = " " THEN RStrip(SubSeq(s, 1, Len(s) - 1)) ELSE s

\* str.strip()
Strip(s) == RStrip(LStrip(s))

DoneText == <<"d", "o", "n", "e">>
YesText == <<"y">>

\* lines the user may type at the "Point #n" prompt
PromptLines == { <<>>, <<"d", "o", "n", "e">>, <<" ", "D", "o", "N", "E", " ">>, <<"d", "o">> }
\* lines the user may type at "Try again? (y/n)"
RetryLines == { <<"y">>, <<" ", "Y">>, <<"n">> }
\* lines the user may type at "Room/Area name (optional)"
RoomLines == { <<>>, <<" ">>, <<" ", "K", " ">> }

(***************************************************************************)
(* Optional values.                                                        *)
(***************************************************************************)
None == [none |-> TRUE, s |-> <<>>]
Str(s) == [none |-> FALSE, s |-> s]

(***************************************************************************)
(* get_wifi_signal_strength.  Each platform utility either fails (missing  *)
(* or timed out) or prints text in which the pattern matches or not.       *)
(***************************************************************************)
UtilFail == [st |-> "fail", a |-> 0, b |-> 0]
UtilNoMatch == [st |-> "nomatch", a |-> 0, b |-> 0]

IwconfigRuns == { UtilFail, UtilNoMatch,
                  [st |-> "level", a |-> -85, b |-> 0],
                  [st |-> "quality", a |-> 7, b |-> 10],
                  [st |-> "quality", a |-> 0, b |-> 0] }
AirportRuns == { UtilFail, UtilNoMatch, [st |-> "rssi", a |-> -65, b |-> 0] }
NetshRuns == { UtilFail, UtilNoMatch, [st |-> "pct", a |-> 100, b |-> 0] }

\* int(a / b) for b > 0: truncation toward zero
TruncDiv(a, b) == IF a >= 0 THEN a \div b ELSE -((-a) \div b)

Reading(v) == [st |-> "ok", v |-> v]
Unavailable == [st |-> "none", v |-> 0]
Raised == [st |-> "raise", v |-> 0]

get_wifi_signal_strength(iw, ap, ns) ==
    IF iw.st = "level" THEN Reading(iw.a)
    ELSE IF iw.st = "quality"
         THEN IF iw.b = 0 THEN Raised
              ELSE Reading(TruncDiv(-100 * iw.b + 70 * iw.a, iw.b))
    ELSE IF ap.st = "rssi" THEN Reading(ap.a)
    ELSE IF ns.st = "pct" THEN Reading(TruncDiv(-100 * 100 + 70 * ns.a, 100))
    ELSE Unavailable

ProbeResults ==
    { get_wifi_signal_strength(iw, ap, ns) :
        iw \in IwconfigRuns, ap \in AirportRuns, ns \in NetshRuns }

(***************************************************************************)
(* get_manual_position.  A typed coordinate is a number or is not one.     *)
(***************************************************************************)
Num(v) == [ok |-> TRUE, v |-> v]
Junk == [ok |-> FALSE, v |-> 0]
XLines == { Num(1), Junk }
YLines == { Num(2), Junk }

get_manual_position(xin, yin) ==
    IF xin.ok /\ yin.ok THEN <<xin.v, yin.v>> ELSE <<0, 0>>

(***************************************************************************)
(* The dataset file: json.dump and json.load.                              *)
(***************************************************************************)
JsonRoom(room) ==
    IF room.none THEN [json |-> "null", s |-> <<>>]
    ELSE [json |-> "string", s |-> room.s]

PyRoom(j) == IF j.json = "null" THEN None ELSE Str(j.s)

JsonDumpPoint(p) ==
    [timestamp |-> p.timestamp, signal_dbm |-> p.signal_dbm,
     x |-> p.x, y |-> p.y, room |-> JsonRoom(p.room)]

JsonLoadPoint(o) ==
    [timestamp |-> o.timestamp, signal_dbm |-> o.signal_dbm,
     x |-> o.x, y |-> o.y, room |-> PyRoom(o.room)]

JsonDump(points) == [i \in 1..Len(points) |-> JsonDumpPoint(points[i])]
JsonLoad(text) == [i \in 1..Len(text) |-> JsonLoadPoint(text[i])]

Absent == [exists |-> FALSE, valid |-> FALSE, text |-> <<>>]
Complete(points) == [exists |-> TRUE, valid |-> TRUE, text |-> JsonDump(points)]
Truncated == [exists |-> TRUE, valid |-> FALSE, text |-> <<>>]

\* the samples whose objects the file holds in full
FileSamples(f) == JsonLoad(f.text)

(***************************************************************************)
(* collect_data.                                                           *)
(***************************************************************************)
\* a sample left by an earlier session
PriorSample ==
    [timestamp |-> 0, signal_dbm |-> -60, x |-> 3, y |-> 3, room |-> None]

\* the file a session may start over: none, an empty list, a list left by an
\* earlier session, or what a session killed while writing left
InitialFiles == { Absent, Complete(<<>>), Complete(<<PriorSample>>), Truncated }

\* the quality shown in the "Logged" line
QualityLabel(s) ==
    IF s >= -50 THEN "Excellent"
    ELSE IF s >= -60 THEN "Good"
    ELSE IF s >= -70 THEN "Fair"
    ELSE "Poor"

\* variant: the session starts from an empty list whatever the file holds
LoadedPoints_Fresh(f) == <<>>

\* the list a session starts with
LoadedPoints(f) == IF f.exists THEN JsonLoad(f.text) ELSE <<>>

\* the list json.dump is given
DumpedPoints(points) == points

\* variant: a second failure falls through to the position prompt
SecondProbeNext_FallThrough(sig) == "position"

\* where control goes after the second probe
SecondProbeNext(sig) == IF sig.st = "none" THEN "prompt" ELSE "position"

\* variant: the file is written before the "Logged" line is printed
StepAfter_SaveFirst ==
    [append |-> "open", open |-> "dump", dump |-> "show", show |-> "incr",
     incr |-> "prompt"]

\* statement order of the loop body once the data point exists:
\* append, print "Logged", open(data_file, 'w'), json.dump, point_num += 1
StepAfter ==
    [append |-> "show", show |-> "open", open |-> "dump", dump |-> "incr",
     incr |-> "prompt"]

CollectInit ==
    /\ file \in InitialFiles
    /\ pc = "start"
    /\ data_points = <<>>
    /\ point_num = 0
    /\ signal = Unavailable
    /\ retry = <<>>
    /\ pos = <<0, 0>>
    /\ probe_calls = 0
    /\ console = <<>>
    /\ prior = FileSamples(file)
    /\ now = 1

\* lines 112-120: load the existing file
LoadExisting ==
    /\ pc = "start"
    /\ IF file.exists /\ ~file.valid
       THEN /\ pc' = "crashed"
            /\ UNCHANGED <<data_points, point_num>>
       ELSE /\ data_points' = LoadedPoints(file)
            /\ point_num' = Len(data_points') + 1
            /\ pc' = "prompt"
    /\ UNCHANGED <<vvars, file, signal, retry, pos, probe_calls, console, prior, now>>

\* lines 123-126: the prompt
Prompt ==
    /\ pc = "prompt"
    /\ \E line \in PromptLines :
         pc' = IF Lower(Strip(line)) = DoneText THEN "exited" ELSE "probe"
    /\ probe_calls' = 0
    /\ UNCHANGED <<vvars, file, data_points, point_num, signal, retry, pos, console,
                   prior, now>>

\* lines 129-132: the first probe
Probe ==
    /\ pc = "probe"
    /\ \E r \in ProbeResults :
         /\ signal' = r
         /\ pc' = CASE r.st = "raise" -> "crashed"
                    [] r.st = "none" -> "retry"
                    [] OTHER -> "position"
    /\ probe_calls' = probe_calls + 1
    /\ UNCHANGED <<vvars, file, data_points, point_num, retry, pos, console, prior, now>>

\* lines 133-136: "Try again? (y/n)"
Retry ==
    /\ pc = "retry"
    /\ \E line \in RetryLines :
         /\ retry' = Lower(Strip(line))
         /\ pc' = IF retry' # YesText THEN "prompt" ELSE "probe2"
    /\ UNCHANGED <<vvars, file, data_points, point_num, signal, pos, probe_calls,
                   console, prior, now>>

\* lines 137-140: the second probe
Probe2 ==
    /\ pc = "probe2"
    /\ \E r \in ProbeResults :
         /\ signal' = r
         /\ pc' = IF r.st = "raise" THEN "crashed" ELSE SecondProbeNext(r)
    /\ probe_calls' = probe_calls + 1
    /\ UNCHANGED <<vvars, file, data_points, point_num, retry, pos, console, prior, now>>

\* line 143: the position
Position ==
    /\ pc = "position"
    /\ \E xin \in XLines, yin \in YLines : pos' = get_manual_position(xin, yin)
    /\ pc' = "room"
    /\ UNCHANGED <<vvars, file, data_points, point_num, signal, retry, probe_calls,
                   console, prior, now>>

\* lines 146-157: the room, the data point, the append
AppendPoint ==
    /\ pc = "room"
    /\ Len(data_points) < MaxPoints
    /\ \E line \in RoomLines :
         LET room == Strip(line)
             data_point ==
                 [timestamp |-> now, signal_dbm |-> signal.v,
                  x |-> pos[1], y |-> pos[2],
                  room |-> IF room # <<>> THEN Str(room) ELSE None]
         IN  data_points' = Append(data_points, data_point)
    /\ now' = now + 1
    /\ pc' = StepAfter.append
    /\ UNCHANGED <<vvars, file, point_num, signal, retry, pos, probe_calls, console, prior>>

\* lines 160-169: the quality and the "Logged" line
ShowLogged ==
    /\ pc = "show"
    /\ console' = Append(console,
           [signal |-> signal.v, quality |-> QualityLabel(signal.v),
            x |-> pos[1], y |-> pos[2]])
    /\ pc' = StepAfter.show
    /\ UNCHANGED <<vvars, file, data_points, point_num, signal, retry, pos, probe_calls,
                   prior, now>>

\* line 172: open(data_file, 'w') truncates the file
OpenForWrite ==
    /\ pc = "open"
    /\ file' = Truncated
    /\ pc' = StepAfter.open
    /\ UNCHANGED <<vvars, data_points, point_num, signal, retry, pos, probe_calls,
                   console, prior, now>>

\* line 173, part: the write buffer is flushed to disk before the dump is over
FlushPartial ==
    /\ pc = "dump"
    /\ \E k \in (Len(file.text) + 1)..(Len(DumpedPoints(data_points)) - 1) :
         file' = [exists |-> TRUE, valid |-> FALSE,
                  text |-> SubSeq(JsonDump(DumpedPoints(data_points)), 1, k)]
    /\ UNCHANGED <<vvars, cvars>>

\* line 173: json.dump completes and the with block closes the file
DumpAndClose ==
    /\ pc = "dump"
    /\ file' = Complete(DumpedPoints(data_points))
    /\ pc' = StepAfter.dump
    /\ UNCHANGED <<vvars, data_points, point_num, signal, retry, pos, probe_calls,
                   console, prior, now>>

\* line 175
Increment ==
    /\ pc = "incr"
    /\ point_num' = point_num + 1
    /\ pc' = StepAfter.incr
    /\ UNCHANGED <<vvars, file, data_points, signal, retry, pos, probe_calls, console,
                   prior, now>>

Stopped == {"exited", "killed", "crashed"}

\* the process is killed between two steps
Kill ==
    /\ pc \notin Stopped
    /\ pc' = "killed"
    /\ UNCHANGED <<vvars, file, data_points, point_num, signal, retry, pos, probe_calls,
                   console, prior, now>>

VizIdle ==
    /\ vpc = "idle"
    /\ args = [threshold |-> -75, flag3d |-> FALSE]
    /\ data = <<>>
    /\ report = <<>>
    /\ grid_signal = <<>>
    /\ grid_3d = <<>>
    /\ images = {}
    /\ executed = <<>>

(***************************************************************************)
(* analyze_dead_zones.                                                     *)
(***************************************************************************)
\* the five band predicates of the "Signal Quality Breakdown"
IsExcellent(s) == s >= -50
\* variant: the lower edge of Good is excluded
IsGood_OpenAtEdge(s) == -60 < s /\ s < -50

IsGood(s) == -60 <= s /\ s < -50
IsFair(s) == -70 <= s /\ s < -60
IsPoor(s) == -80 <= s /\ s < -70
IsVeryPoor(s) == s < -80

\* variant: a sample at the threshold counts as a dead zone
IsDeadZone_Inclusive(p, threshold) == p.signal_dbm <= threshold

\* variant: the comparison is the wrong way round
IsDeadZone_Flipped(p, threshold) == p.signal_dbm > threshold

IsDeadZone(p, threshold) == p.signal_dbm < threshold
IsGoodZone(p) == p.signal_dbm >= -60

\* variant: a point goes in front of the placed points of equal key
RECURSIVE InsertDescending_TiesFirst(_, _)
InsertDescending_TiesFirst(placed, p) ==
    IF placed = <<>> THEN <<p>>
    ELSE IF Head(placed).signal_dbm > p.signal_dbm
         THEN <<Head(placed)>> \o InsertDescending_TiesFirst(Tail(placed), p)
         ELSE <<p>> \o placed

\* sorted(..., key=signal_dbm, reverse=True) keeps equal keys in input order:
\* each point goes behind the points already placed whose key is not smaller
RECURSIVE InsertDescending(_, _)
InsertDescending(placed, p) ==
    IF placed = <<>> THEN <<p>>
    ELSE IF Head(placed).signal_dbm >= p.signal_dbm
         THEN <<Head(placed)>> \o InsertDescending(Tail(placed), p)
         ELSE <<p>> \o placed

RECURSIVE SortedDescending(_)
SortedDescending(points) ==
    IF points = <<>> THEN <<>>
    ELSE InsertDescending(
             SortedDescending(SubSeq(points, 1, Len(points) - 1)),
             points[Len(points)])

\* seq[:n]
Take(seq, n) == SubSeq(seq, 1, IF Len(seq) < n THEN Len(seq) ELSE n)

BestCoverage(good_zones) == Take(SortedDescending(good_zones), 3)

\* each list comprehension [p for p in data if ...] is a SelectSeq
analyze_dead_zones(points, threshold) ==
    LET dead_zones == SelectSeq(points, LAMBDA p : IsDeadZone(p, threshold))
        good_zones == SelectSeq(points, IsGoodZone)
    IN  [threshold |-> threshold,
         dead_zones |-> dead_zones,
         good_zones |-> good_zones,
         excellent |-> Len(SelectSeq(points, LAMBDA p : IsExcellent(p.signal_dbm))),
         good |-> Len(SelectSeq(points, LAMBDA p : IsGood(p.signal_dbm))),
         fair |-> Len(SelectSeq(points, LAMBDA p : IsFair(p.signal_dbm))),
         poor |-> Len(SelectSeq(points, LAMBDA p : IsPoor(p.signal_dbm))),
         very_poor |-> Len(SelectSeq(points, LAMBDA p : IsVeryPoor(p.signal_dbm))),
         best |-> IF good_zones # <<>> THEN BestCoverage(good_zones) ELSE <<>>]

\* datasets of the analysis runs: signals at and between the band edges,
\* sample i taken at time i at the place (i, 0)
AnalysisSignals == {-85, -80, -75, -70, -60, -50}
Thresholds == {-80, -75, -60}

SampleList(signals) ==
    [i \in 1..Len(signals) |->
        [timestamp |-> i, signal_dbm |-> signals[i], x |-> i, y |-> 0,
         room |-> None]]

RECURSIVE SeqsUpTo(_, _)
SeqsUpTo(S, n) ==
    IF n = 0 THEN {<<>>}
    ELSE LET shorter == SeqsUpTo(S, n - 1)
         IN  shorter \cup { Append(q, e) : q \in shorter, e \in S }

CollectIdle ==
    /\ pc = "idle"
    /\ data_points = <<>>
    /\ point_num = 0
    /\ signal = Unavailable
    /\ retry = <<>>
    /\ pos = <<0, 0>>
    /\ probe_calls = 0
    /\ console = <<>>
    /\ prior = <<>>
    /\ now = 0

AnalyzeInit ==
    /\ file = Absent
    /\ CollectIdle
    /\ vpc = "analyze"
    /\ args = [threshold |-> -75, flag3d |-> FALSE]
    /\ data \in { SampleList(q) : q \in SeqsUpTo(AnalysisSignals, MaxSamples) \ {<<>>} }
    /\ report = <<>>
    /\ grid_signal = <<>>
    /\ grid_3d = <<>>
    /\ images = {}
    /\ executed = <<>>

\* analyze_dead_zones(data, threshold), run again over the same dataset
AnalyzeRun ==
    /\ vpc = "analyze"
    /\ Len(report) < MaxRuns
    /\ \E t \in Thresholds :
         /\ args' = [args EXCEPT !.threshold = t]
         /\ report' = Append(report, analyze_dead_zones(data, t))
    /\ UNCHANGED <<file, cvars, vpc, data, grid_signal, grid_3d, images, executed>>

AnalyzeNext == AnalyzeRun

SpecAnalyze == AnalyzeInit /\ [][AnalyzeNext]_vars

(***************************************************************************)
(* create_heatmap and create_3d_visualization: the grid.                   *)
(* A lattice of R points per axis over [min - 1, max + 1] has the points   *)
(* min - 1 + i * (max - min + 2) / (R - 1); all coordinates are kept       *)
(* multiplied by R - 1, which leaves every orientation test unchanged.     *)
(***************************************************************************)
Range(seq) == { seq[k] : k \in DOMAIN seq }
MinOf(S) == CHOOSE m \in S : \A n \in S : m <= n
MaxOf(S) == CHOOSE m \in S : \A n \in S : m >= n

Xs(points) == { p.x : p \in Range(points) }
Ys(points) == { p.y : p \in Range(points) }
Signals(points) == { p.signal_dbm : p \in Range(points) }

\* np.linspace(lo, hi, R)[i], times R - 1
Linspace(lo, hi, R, i) == (R - 1) * lo + i * (hi - lo)

\* the lattice point (i, j) of np.meshgrid, times R - 1
LatticePoint(points, R, i, j) ==
    <<Linspace(MinOf(Xs(points)) - 1, MaxOf(Xs(points)) + 1, R, i),
      Linspace(MinOf(Ys(points)) - 1, MaxOf(Ys(points)) + 1, R, j)>>

\* the sample coordinates, times R - 1
Sites(points, R) == { <<(R - 1) * p.x, (R - 1) * p.y>> : p \in Range(points) }

Cross(a, b, c) ==
    (b[1] - a[1]) * (c[2] - a[2]) - (b[2] - a[2]) * (c[1] - a[1])

InTriangle(q, a, b, c) ==
    LET d1 == Cross(a, b, q)
        d2 == Cross(b, c, q)
        d3 == Cross(c, a, q)
    IN  ~((d1 < 0 \/ d2 < 0 \/ d3 < 0) /\ (d1 > 0 \/ d2 > 0 \/ d3 > 0))

\* q lies in the convex hull of the sites: in a triangle of three of them
InHull(q, sites) ==
    \E a \in sites, b \in sites, c \in sites :
        Cross(a, b, c) # 0 /\ InTriangle(q, a, b, c)

\* no three sites span a triangle: the triangulation cannot be built
Degenerate(sites) ==
    \A a \in sites, b \in sites, c \in sites : Cross(a, b, c) = 0

\* the value a grid cell holds: the fill value, or a value of the interpolant
Filled(v) == [filled |-> TRUE, v |-> v]
Interpolated == [filled |-> FALSE, v |-> 0]

\* variant: the strongest signal is the fill value
FillValue_Max(points) == MaxOf(Signals(points))

\* fill_value=min(signals)
FillValue(points) == MinOf(Signals(points))

\* griddata((x_coords, y_coords), signals, (grid_x, grid_y), method='cubic',
\*          fill_value=...): a lattice point outside the hull gets fill_value
Griddata(points, R, fill_value) ==
    [c \in (0..(R - 1)) \X (0..(R - 1)) |->
        IF InHull(LatticePoint(points, R, c[1], c[2]), Sites(points, R))
        THEN Interpolated
        ELSE Filled(fill_value)]

\* the grid of a plot, or <<>> when building it raises
BuildGrid(points, R) ==
    IF points = <<>> \/ Degenerate(Sites(points, R)) THEN <<>>
    ELSE Griddata(points, R, FillValue(points))

(***************************************************************************)
(* load_data and main of the visualizer.                                   *)
(***************************************************************************)
NoData == [none |-> TRUE, points |-> <<>>]
Loaded(points) == [none |-> FALSE, points |-> points]

\* variant: an empty list is returned as data
load_data_NoEmptyCheck(f) ==
    IF ~f.exists THEN NoData ELSE Loaded(JsonLoad(f.text))

\* lines 14-28; the file is complete JSON
load_data(f) ==
    IF ~f.exists THEN NoData
    ELSE IF Len(JsonLoad(f.text)) = 0 THEN NoData
    ELSE Loaded(JsonLoad(f.text))

\* datasets of the visualization runs: two signals, five places of which
\* three lie on a line
GridPlaces == { <<0, 0>>, <<1, 0>>, <<2, 0>>, <<0, 1>>, <<2, 1>> }
GridSignals == {-80, -40}
GridSamples ==
    { [timestamp |-> 0, signal_dbm |-> s, x |-> xy[1], y |-> xy[2],
       room |-> None] : s \in GridSignals, xy \in GridPlaces }

VizFiles ==
    {Absent, Truncated} \cup
    { Complete(points) : points \in SeqsUpTo(GridSamples, MaxGridSamples) }

VizInit ==
    /\ file \in VizFiles
    /\ CollectIdle
    /\ vpc = "load"
    /\ args \in [threshold : {-75}, flag3d : BOOLEAN]
    /\ data = <<>>
    /\ report = <<>>
    /\ grid_signal = <<>>
    /\ grid_3d = <<>>
    /\ images = {}
    /\ executed = <<>>

\* lines 241-244
MainLoad ==
    /\ vpc = "load"
    /\ executed' = Append(executed, "load_data")
    /\ IF file.exists /\ ~file.valid
       THEN /\ vpc' = "crashed"
            /\ data' = data
       ELSE LET r == load_data(file)
            IN  /\ data' = r.points
                /\ vpc' = IF r.none THEN "done" ELSE "analyze"
    /\ UNCHANGED <<file, cvars, args, report, grid_signal, grid_3d, images>>

\* line 247
MainAnalyze ==
    /\ vpc = "analyze"
    /\ executed' = Append(executed, "analyze_dead_zones")
    /\ report' = Append(report, analyze_dead_zones(data, args.threshold))
    /\ vpc' = "heatmap"
    /\ UNCHANGED <<file, cvars, args, data, grid_signal, grid_3d, images>>

\* line 250: create_heatmap(data, args.output)
MainHeatmap ==
    /\ vpc = "heatmap"
    /\ executed' = Append(executed, "create_heatmap")
    /\ grid_signal' = BuildGrid(data, Resolution2D)
    /\ IF grid_signal' = <<>>
       THEN /\ vpc' = "crashed"
            /\ images' = images
       ELSE /\ images' = images \cup {"wifi_heatmap.png"}
            /\ vpc' = IF args.flag3d THEN "3d" ELSE "done"
    /\ UNCHANGED <<file, cvars, args, data, report, grid_3d>>

\* lines 253-254: create_3d_visualization(data, 'wifi_3d.png')
Main3d ==
    /\ vpc = "3d"
    /\ executed' = Append(executed, "create_3d_visualization")
    /\ grid_3d' = BuildGrid(data, Resolution3D)
    /\ IF grid_3d' = <<>>
       THEN /\ vpc' = "crashed"
            /\ images' = images
       ELSE /\ images' = images \cup {"wifi_3d.png"}
            /\ vpc' = "done"
    /\ UNCHANGED <<file, cvars, args, data, report, grid_signal>>

VizNext ==
    \/ MainLoad
    \/ MainAnalyze
    \/ MainHeatmap
    \/ Main3d

SpecViz == VizInit /\ [][VizNext]_vars

Init == CollectInit /\ VizIdle

Next ==
    \/ LoadExisting
    \/ Prompt
    \/ Probe
    \/ Retry
    \/ Probe2
    \/ Position
    \/ AppendPoint
    \/ ShowLogged
    \/ OpenForWrite
    \/ FlushPartial
    \/ DumpAndClose
    \/ Increment
    \/ Kill

Spec == Init /\ [][Next]_vars

(***************************************************************************)
(* Properties.                                                             *)
(***************************************************************************)
\* signals at, just below and just above every band edge, and far outside
BandDomain ==
    {-1000, -101, -100, -81, -80, -79, -71, -70, -69, -61, -60, -59, -51, -50,
     -49, -1, 0, 1, 1000}

BandsTrueOf(s) ==
    {b \in {"Excellent", "Good", "Fair", "Poor", "Very Poor"} :
        CASE b = "Excellent" -> IsExcellent(s)
          [] b = "Good" -> IsGood(s)
          [] b = "Fair" -> IsFair(s)
          [] b = "Poor" -> IsPoor(s)
          [] OTHER -> IsVeryPoor(s)}

\* C1: every integer signal, also outside [-100, 0], satisfies exactly one of
\* the five band predicates, and the five band counts of every report of a
\* non-empty dataset sum to the number of samples.
C1_BandsPartitionAndCountsSum ==
    /\ \A s \in BandDomain : Cardinality(BandsTrueOf(s)) = 1
    /\ \A k \in DOMAIN report :
         LET r == report[k]
         IN  r.excellent + r.good + r.fair + r.poor + r.very_poor = Len(data)

C1_Witness ==
    \E k \in DOMAIN report :
        /\ report[k].excellent > 0
        /\ report[k].good > 0
        /\ report[k].poor > 0
        /\ report[k].very_poor > 0

\* the k-th smallest index of idx
KthIndex(idx, k) ==
    CHOOSE i \in idx : Cardinality({j \in idx : j < i}) = k - 1

\* sub is exactly the elements of points at the indices idx, in input order
ExactlyInOrder(sub, points, idx) ==
    /\ Len(sub) = Cardinality(idx)
    /\ \A k \in 1..Len(sub) : sub[k] = points[KthIndex(idx, k)]

DeadIndices(threshold) ==
    {n \in 1..Len(data) : data[n].signal_dbm < threshold}
GoodIndices == {n \in 1..Len(data) : data[n].signal_dbm >= -60}

\* C2: the dead zones of a report are exactly the samples with
\* signal_dbm < threshold, in input order; its good zones are exactly the
\* samples with signal_dbm >= -60; two runs over the same samples with
\* different thresholds have the same good zones.
C2_DeadAndGoodZones ==
    /\ \A k \in DOMAIN report :
         /\ ExactlyInOrder(report[k].dead_zones, data,
                           DeadIndices(report[k].threshold))
         /\ ExactlyInOrder(report[k].good_zones, data, GoodIndices)
    /\ \A k \in DOMAIN report, m \in DOMAIN report :
         report[k].good_zones = report[m].good_zones

C2_Witness ==
    /\ Len(report) = 2
    /\ report[1].threshold # report[2].threshold
    /\ report[1].dead_zones # report[2].dead_zones
    /\ report[1].dead_zones # <<>>
    /\ report[2].dead_zones # <<>>
    /\ Len(report[1].good_zones) >= 2
    /\ \E n \in 1..Len(data) : data[n].signal_dbm = report[1].threshold

\* C3: the best-coverage list has at most 3 entries, each a good zone, in
\* descending signal order, equal signals in input order, and no good zone
\* left out is stronger than a listed one.
C3_BestCoverage ==
    \A k \in DOMAIN report :
        LET best == report[k].best
            n == Len(best)
        IN  /\ n <= 3
            /\ \E ks \in [1..n -> GoodIndices] :
                 /\ \A j \in 1..n : best[j] = data[ks[j]]
                 /\ \A j \in 1..(n - 1) :
                      \/ data[ks[j]].signal_dbm > data[ks[j + 1]].signal_dbm
                      \/ /\ data[ks[j]].signal_dbm = data[ks[j + 1]].signal_dbm
                         /\ ks[j] < ks[j + 1]
                 /\ \A g \in GoodIndices \ {ks[j] : j \in 1..n} :
                      \A j \in 1..n :
                          data[g].signal_dbm <= data[ks[j]].signal_dbm

C3_Witness ==
    \E k \in DOMAIN report :
        /\ Len(report[k].best) = 3
        /\ Cardinality(GoodIndices) = 4
        /\ report[k].best[1].signal_dbm = report[k].best[2].signal_dbm
        /\ report[k].best[1] # report[k].best[2]
        /\ report[k].best[3].signal_dbm < report[k].best[2].signal_dbm
        /\ data[1].signal_dbm = -60

\* C4 as stated: of two runs over the same samples, the run with the lower
\* threshold reports every dead zone the run with the higher threshold reports.
C4_LowerThresholdContains ==
    \A k \in DOMAIN report, m \in DOMAIN report :
        report[k].threshold < report[m].threshold =>
            Range(report[m].dead_zones) \subseteq Range(report[k].dead_zones)

\* C4, amended: of two runs over the same samples, the run with the higher
\* threshold reports every dead zone the run with the lower threshold reports.
C4_HigherThresholdContains ==
    \A k \in DOMAIN report, m \in DOMAIN report :
        report[k].threshold < report[m].threshold =>
            Range(report[k].dead_zones) \subseteq Range(report[m].dead_zones)

C4_Witness ==
    \E k \in DOMAIN report, m \in DOMAIN report :
        /\ report[k].threshold < report[m].threshold
        /\ report[k].dead_zones # <<>>
        /\ Range(report[k].dead_zones) # Range(report[m].dead_zones)

\* the lattice points of a grid of R points per axis that lie outside the hull
OutsideHull(R) ==
    {c \in (0..(R - 1)) \X (0..(R - 1)) :
        ~InHull(LatticePoint(data, R, c[1], c[2]), Sites(data, R))}

\* the plot that reached its gridding step raised instead of drawing
RaisedIn(name, image) ==
    /\ vpc = "crashed"
    /\ executed[Len(executed)] = name
    /\ image \notin images

\* C5: in the grid of the heat map and of the 3D plot every lattice point
\* outside the convex hull of the sample coordinates holds min(signal_dbm);
\* when no three samples span a triangle the plot raises and no grid is built.
C5_FallbackOutsideHull ==
    /\ grid_signal # <<>> =>
         \A c \in OutsideHull(Resolution2D) :
             grid_signal[c] = Filled(MinOf(Signals(data)))
    /\ grid_3d # <<>> =>
         \A c \in OutsideHull(Resolution3D) :
             grid_3d[c] = Filled(MinOf(Signals(data)))
    /\ (data # <<>> /\ Degenerate(Sites(data, 2)) /\ vpc \notin {"analyze", "heatmap"}) =>
         /\ grid_signal = <<>>
         /\ grid_3d = <<>>
         /\ RaisedIn("create_heatmap", "wifi_heatmap.png")

C5_Witness ==
    /\ grid_signal # <<>>
    /\ grid_3d # <<>>
    /\ OutsideHull(Resolution2D) # {}
    /\ OutsideHull(Resolution2D) # (0..(Resolution2D - 1)) \X (0..(Resolution2D - 1))
    /\ OutsideHull(Resolution3D) # {}
    /\ Cardinality(Signals(data)) = 2

\* the samples of this session that console line i confirms
Confirms(line, p) ==
    /\ p.signal_dbm = line.signal
    /\ p.x = line.x
    /\ p.y = line.y

\* C6: back at the prompt after at least one sample was logged, the file holds
\* exactly the samples it held at the start of the session followed by the
\* samples logged in the session, in logging order, and equals the list in
\* memory.
C6_FileIsPriorPlusLogged ==
    (pc = "prompt" /\ console # <<>>) =>
        /\ file.exists
        /\ file.valid
        /\ LET on_disk == JsonLoad(file.text)
           IN  /\ Len(on_disk) = Len(prior) + Len(console)
               /\ SubSeq(on_disk, 1, Len(prior)) = prior
               /\ \A i \in 1..Len(console) :
                    Confirms(console[i], on_disk[Len(prior) + i])
               /\ on_disk = data_points

C6_Witness ==
    /\ pc = "prompt"
    /\ console # <<>>
    /\ prior # <<>>
    /\ data_points[Len(data_points)].room # None

\* C7: in every state, also after a kill, every sample of this session that
\* the file holds has been confirmed by its "Logged" line.
C7_FileNeverAheadOfConfirmation ==
    \A i \in 1..Len(file.text) :
        i > Len(prior) =>
            /\ i - Len(prior) <= Len(console)
            /\ Confirms(console[i - Len(prior)], JsonLoadPoint(file.text[i]))

C7_Witness ==
    /\ pc = "killed"
    /\ Len(file.text) > Len(prior)
    /\ ~file.valid

Logging == {"position", "room", "show", "open", "dump", "incr"}

\* C8: the probe is called at most twice for a point, the second time only
\* after an unavailable reading and the answer y; a point for which no reading
\* is obtained is skipped: back to the prompt with the list, the file and the
\* point number unchanged; a sample is appended only with a reading.
C8_UnavailableSkipsPoint ==
    /\ [](probe_calls <= 2)
    /\ [](probe_calls = 2 => retry = YesText)
    /\ [](pc \in Logging => signal.st = "ok")
    /\ [][probe_calls' = 2 /\ probe_calls = 1 => signal.st = "none"]_vars
    /\ [][(\/ probe_calls = 1 /\ probe_calls' = 2 /\ signal'.st = "none"
           \/ pc = "retry" /\ pc' # "killed" /\ retry' # YesText)
          => /\ pc' = "prompt"
             /\ UNCHANGED <<data_points, file, point_num>>]_vars
    /\ [][Len(data_points') > Len(data_points) /\ pc = "room"
          => /\ signal.st = "ok"
             /\ data_points'[Len(data_points')].signal_dbm = signal.v]_vars

C8_Witness ==
    /\ pc = "prompt"
    /\ probe_calls = 2
    /\ signal.st = "none"
    /\ data_points # <<>>
    /\ console # <<>>

FirstFour ==
    <<"load_data", "analyze_dead_zones", "create_heatmap",
      "create_3d_visualization">>

\* C9: with the file missing or holding zero samples main stops after
\* load_data: no analysis, no grid, no image; otherwise the analysis runs
\* before the heat map and the 3D plot runs only with the --3d flag.
C9_EarlyExitAndOrder ==
    /\ (~file.exists \/ (file.valid /\ Len(file.text) = 0)) =>
          /\ vpc \in {"load", "done"}
          /\ Len(executed) <= 1
          /\ report = <<>>
          /\ grid_signal = <<>>
          /\ grid_3d = <<>>
          /\ images = {}
    /\ executed = SubSeq(FirstFour, 1, Len(executed))
    /\ ("create_3d_visualization" \in Range(executed) \/ "wifi_3d.png" \in images
           \/ grid_3d # <<>>) => args.flag3d
    /\ grid_signal # <<>> => report # <<>>

C9_Witness ==
    /\ file.exists
    /\ file.valid
    /\ Len(file.text) = 0
    /\ vpc = "done"
    /\ executed = <<"load_data">>

\* C10: the quality in every "Logged" line is the name of the band in which
\* analyze_dead_zones counts the sample.
C10_LabelIsBand ==
    \A i \in DOMAIN console :
        BandsTrueOf(console[i].signal) = {console[i].quality}

====
